---- MODULE Spec2Model ----
(***************************************************************************)
(* Model of the vLCM client bindings of govmomi: the task poller           *)
(* (tasks.Manager.WaitForCompletion), the REST accessors of the depots and *)
(* clusters managers, and the Run methods of the govc commands.            *)
(***************************************************************************)
EXTENDS Integers, Sequences, FiniteSets, TLC

(***************************************************************************)
(* Bounds of the exploration.                                              *)
(***************************************************************************)
MaxTicks == 5

\* Intervals followed per call when two calls run side by side.
MaxConcTicks == 2

Calls == {1, 2}

Nil == "nil"

(***************************************************************************)
(* JSON values and Go maps.                                                *)
(* A decoded JSON value carries its dynamic type; the nil interface value  *)
(* is what indexing a map yields for an absent key.                        *)
(***************************************************************************)
JString(s) == [type |-> "string", val |-> s]

JNumber(n) == [type |-> "number", val |-> n]

NilIface == [type |-> "nil", val |-> Nil]

\* var res map[string]interface{}: the zero value of a map is the nil map.
NilMap == [isNil |-> TRUE, kv |-> <<>>]

MakeMap(f) == [isNil |-> FALSE, kv |-> f]

\* m[k] on a Go map: the zero value (nil interface) when k is absent or m is nil.
MapIndex(m, k) == IF k \in DOMAIN m.kv THEN m.kv[k] ELSE NilIface

\* v.(string): the single-value type assertion panics unless v holds a string.
AssertString(v) ==
    IF v.type = "string" THEN [panic |-> FALSE, val |-> v.val]
                         ELSE [panic |-> TRUE, val |-> ""]

(***************************************************************************)
(* Go strings that the code splits or joins are sequences of tokens; ","   *)
(* is the separator token.  A *T argument is a pointer that may be nil.    *)
(***************************************************************************)
Comma == <<",">>

NilPtr == [isNil |-> TRUE, val |-> <<>>]

Ptr(v) == [isNil |-> FALSE, val |-> v]

NoBody == <<>>

RECURSIVE Join(_, _)
\* strings.Join(elems, sep): the elements in order with sep between neighbours.
Join(elems, sep) ==
    IF Len(elems) = 0 THEN <<>>
    ELSE IF Len(elems) = 1 THEN elems[1]
    ELSE elems[1] \o sep \o Join(Tail(elems), sep)

RECURSIVE SplitFrom(_, _)
SplitFrom(s, cur) ==
    IF Len(s) = 0 THEN <<cur>>
    ELSE IF <<Head(s)>> = Comma THEN <<cur>> \o SplitFrom(Tail(s), <<>>)
    ELSE SplitFrom(Tail(s), Append(cur, Head(s)))

\* Variant of the split that drops empty pieces.
SplitNonEmpty(s) == SelectSeq(SplitFrom(s, <<>>), LAMBDA x : x # <<>>)

\* strings.Split(s, ","): the pieces of s between separators.
Split(s) == SplitFrom(s, <<>>)

(***************************************************************************)
(* rest.Resource: a path and the query parameters attached so far.         *)
(* WithSubpath and WithParam update the resource they are called on.       *)
(***************************************************************************)
Resource(path) == [path |-> path, params |-> <<>>]

WithSubpath(r, sub) == [r EXCEPT !.path = Append(@, sub)]

WithParam(r, name, value) == [r EXCEPT !.params = Append(@, <<name, value>>)]

Request(r, method, body) ==
    [method |-> method, path |-> r.path, params |-> r.params, body |-> body]

(***************************************************************************)
(* The task status endpoint.                                               *)
(***************************************************************************)
TasksPath == <<"api", "cis", "tasks">>

Running == "RUNNING"

Statuses == {"RUNNING", "SUCCEEDED", "FAILED", "BLOCKED"}

FetchErrors == {"transport", "http404", "decode"}

\* Documents the status endpoint can answer with a 2xx response.
StatusDocs ==
    {MakeMap([status |-> JString(s)]) : s \in Statuses}
    \cup {MakeMap([status |-> JString(s), progress |-> JNumber(50)]) : s \in {"RUNNING"}}
    \cup {MakeMap([progress |-> JNumber(50)]),
          MakeMap([status |-> JNumber(1)]),
          NilMap}

\* Outcomes of c.Do(ctx, req, &res) in getTaskInfo: on failure res is left
\* at its zero value, on success it holds the decoded document (the nil map
\* when the body was empty).
DoOutcomes ==
    {[doc |-> d, err |-> Nil] : d \in StatusDocs}
    \cup {[doc |-> NilMap, err |-> e] : e \in FetchErrors}

TaskIdOf(c) == IF c = 1 THEN "task-A" ELSE "task-B"

VARIABLES
    callers,    \* the calls of WaitForCompletion the environment makes
    pc,         \* per call: "idle", "select", "fetching", "returned", "panicked",
                \* "crashed" (ended by the panic of another call of the process)
    elapsed,    \* per call: ticker intervals elapsed since NewTicker
    chan,       \* per call: ticks buffered in ticker.C (capacity 1)
    dropped,    \* per call: ticks the ticker dropped because ticker.C was full
    fetches,    \* per call: sequence of status requests issued
    served,     \* per call: sequence of outcomes the fetches got
    retStatus,  \* per call: returned status string
    retErr,     \* per call: returned error
    restPc,     \* accessor call: "idle", "awaiting" (request outstanding), "returned"
    acc,        \* accessor call: the accessor invoked and its arguments
    sent,       \* accessor call: requests handed to c.Do during the call
    doOut,      \* accessor call: what c.Do returned
    accRet,     \* accessor call: what the accessor returned
    cliPc,      \* command: "none", "built", "calling", "returned", "panicked"
    cmd,        \* command: the govc command run and its flags
    dm,         \* command: the manager built by Run
    rcErr,      \* command: the error cmd.RestClient() returned
    runErr      \* command: the error Run returned

pollVars == <<callers, pc, elapsed, chan, dropped, fetches, served, retStatus, retErr>>

restVars == <<restPc, acc, sent, doOut, accRet>>

cliVars == <<cliPc, cmd, dm, rcErr, runErr>>

vars == <<callers, pc, elapsed, chan, dropped, fetches, served, retStatus, retErr,
          restPc, acc, sent, doOut, accRet, cliPc, cmd, dm, rcErr, runErr>>

\* getTaskInfo builds GET /api/cis/tasks/{taskId}.
getTaskInfoRequest(taskId) ==
    Request(WithSubpath(Resource(TasksPath), taskId), "GET", NoBody)

\* time.NewTicker: an empty channel of capacity one, no interval elapsed.
NewTicker(c) ==
    /\ elapsed' = [elapsed EXCEPT ![c] = 0]
    /\ chan' = [chan EXCEPT ![c] = 0]
    /\ dropped' = [dropped EXCEPT ![c] = 0]

\* Variant of the entry that polls once immediately before waiting for a tick.
WaitForCompletionPollFirst(c) ==
    /\ c \in callers
    /\ pc[c] = "idle"
    /\ NewTicker(c)
    /\ fetches' = [fetches EXCEPT ![c] = Append(@, getTaskInfoRequest(TaskIdOf(c)))]
    /\ pc' = [pc EXCEPT ![c] = "fetching"]
    /\ UNCHANGED <<callers, served, retStatus, retErr,
                   restVars, cliVars>>

\* Entry of WaitForCompletion: creates the ticker and blocks in select.
WaitForCompletion(c) ==
    /\ c \in callers
    /\ pc[c] = "idle"
    /\ NewTicker(c)
    /\ pc' = [pc EXCEPT ![c] = "select"]
    /\ UNCHANGED <<callers, fetches, served, retStatus, retErr,
                   restVars, cliVars>>

\* One ticker interval elapses: the runtime sends on ticker.C without
\* blocking, so the tick is dropped when one is still buffered.  Nothing
\* in WaitForCompletion stops the ticker.  A call blocked in select with a
\* tick available receives it before the next interval (10 s) elapses.
Tick(c) ==
    /\ pc[c] \notin {"idle", "crashed"}
    /\ ~(pc[c] = "select" /\ chan[c] = 1)
    /\ elapsed[c] < (IF callers = {1} THEN MaxTicks ELSE MaxConcTicks)
    /\ elapsed' = [elapsed EXCEPT ![c] = @ + 1]
    /\ IF chan[c] = 0
          THEN /\ chan' = [chan EXCEPT ![c] = 1]
               /\ UNCHANGED dropped
          ELSE /\ dropped' = [dropped EXCEPT ![c] = @ + 1]
               /\ UNCHANGED chan
    /\ UNCHANGED <<callers, pc, fetches, served, retStatus, retErr,
                   restVars, cliVars>>

\* Variant of the receive that polls without draining ticker.C.
FetchNoDrain(c) ==
    /\ pc[c] = "select"
    /\ chan[c] = 1
    /\ fetches' = [fetches EXCEPT ![c] = Append(@, getTaskInfoRequest(TaskIdOf(c)))]
    /\ pc' = [pc EXCEPT ![c] = "fetching"]
    /\ UNCHANGED <<callers, elapsed, chan, dropped, served, retStatus, retErr,
                   restVars, cliVars>>

\* case <-ticker.C: the call receives the tick and getTaskInfo issues the request.
Fetch(c) ==
    /\ pc[c] = "select"
    /\ chan[c] = 1
    /\ chan' = [chan EXCEPT ![c] = 0]
    /\ fetches' = [fetches EXCEPT ![c] = Append(@, getTaskInfoRequest(TaskIdOf(c)))]
    /\ pc' = [pc EXCEPT ![c] = "fetching"]
    /\ UNCHANGED <<callers, elapsed, dropped, served, retStatus, retErr,
                   restVars, cliVars>>

\* Variant of the loop body that stops only on "SUCCEEDED".
HandleTaskInfoUntilSucceeded(taskInfo, err) ==
    LET a == AssertString(MapIndex(taskInfo, "status"))
    IN  IF a.panic THEN [next |-> "panicked", status |-> Nil, err |-> Nil]
        ELSE IF err # Nil THEN [next |-> "returned", status |-> a.val, err |-> err]
        ELSE IF a.val = "SUCCEEDED" THEN [next |-> "returned", status |-> a.val, err |-> Nil]
        ELSE [next |-> "select", status |-> Nil, err |-> Nil]

\* Variant of the loop body that reports a "FAILED" task as an error.
HandleTaskInfoClassifying(taskInfo, err) ==
    LET a == AssertString(MapIndex(taskInfo, "status"))
    IN  IF a.panic THEN [next |-> "panicked", status |-> Nil, err |-> Nil]
        ELSE IF err # Nil THEN [next |-> "returned", status |-> a.val, err |-> err]
        ELSE IF a.val = "FAILED" THEN [next |-> "returned", status |-> a.val, err |-> "task failed"]
        ELSE IF a.val # Running THEN [next |-> "returned", status |-> a.val, err |-> Nil]
        ELSE [next |-> "select", status |-> Nil, err |-> Nil]

\* Variant of the loop body that returns whatever status the first poll reads.
HandleTaskInfoReturnFirst(taskInfo, err) ==
    LET a == AssertString(MapIndex(taskInfo, "status"))
    IN  IF a.panic THEN [next |-> "panicked", status |-> Nil, err |-> Nil]
        ELSE IF err # Nil THEN [next |-> "returned", status |-> a.val, err |-> err]
        ELSE [next |-> "returned", status |-> a.val, err |-> Nil]

\* The body of the select case once getTaskInfo has returned (taskInfo, err):
\* the status is asserted to be a string before err is looked at.
HandleTaskInfo(taskInfo, err) ==
    LET a == AssertString(MapIndex(taskInfo, "status"))
    IN  IF a.panic THEN [next |-> "panicked", status |-> Nil, err |-> Nil]
        ELSE IF err # Nil THEN [next |-> "returned", status |-> a.val, err |-> err]
        ELSE IF a.val # Running THEN [next |-> "returned", status |-> a.val, err |-> Nil]
        ELSE [next |-> "select", status |-> Nil, err |-> Nil]

\* getTaskInfo returns with outcome r and the loop body handles it.
Respond(c) ==
    /\ pc[c] = "fetching"
    /\ \E r \in DoOutcomes :
          LET h == HandleTaskInfo(r.doc, r.err)
          IN  /\ served' = [served EXCEPT ![c] = Append(@, r)]
              /\ pc' = [pc EXCEPT ![c] = h.next]
              /\ retStatus' = [retStatus EXCEPT ![c] = h.status]
              /\ retErr' = [retErr EXCEPT ![c] = h.err]
    /\ UNCHANGED <<callers, elapsed, chan, dropped, fetches,
                   restVars, cliVars>>

PollInit ==
    /\ pc = [c \in Calls |-> "idle"]
    /\ elapsed = [c \in Calls |-> 0]
    /\ chan = [c \in Calls |-> 0]
    /\ dropped = [c \in Calls |-> 0]
    /\ fetches = [c \in Calls |-> <<>>]
    /\ served = [c \in Calls |-> <<>>]
    /\ retStatus = [c \in Calls |-> Nil]
    /\ retErr = [c \in Calls |-> Nil]

(***************************************************************************)
(* REST accessors of the depots and clusters managers.                     *)
(***************************************************************************)
DepotsOfflinePath == <<"api", "esx", "settings", "depots", "offline">>

DepotsOfflineContentPath(depotId) == DepotsOfflinePath \o <<depotId, "content">>

DepotContentComponentsPath == <<"api", "esx", "settings", "depot-content", "components">>

SoftwareDraftsPath(clusterId) ==
    <<"api", "esx", "settings", "clusters", clusterId, "software", "drafts">>

SoftwareComponentsPath(clusterId, draftId) ==
    SoftwareDraftsPath(clusterId) \o <<draftId, "software", "components">>

GetOfflineDepotRequest(depotId) ==
    Request(WithSubpath(Resource(DepotsOfflinePath), depotId), "GET", NoBody)

GetOfflineDepotsRequest == Request(Resource(DepotsOfflinePath), "GET", NoBody)

DeleteOfflineDepotRequest(depotId) ==
    Request(WithParam(WithSubpath(Resource(DepotsOfflinePath), depotId), "vmw-task", <<"true">>),
            "DELETE", NoBody)

\* The json tags of SettingsDepotsOfflineCreateSpec, in field order.
CreateSpecTags ==
    << [field |-> "Description", key |-> "description", omitempty |-> TRUE],
       [field |-> "SourceType", key |-> "source_type", omitempty |-> FALSE],
       [field |-> "FileId", key |-> "file_id", omitempty |-> TRUE],
       [field |-> "Location", key |-> "location", omitempty |-> TRUE],
       [field |-> "OwnerData", key |-> "owner_data", omitempty |-> TRUE] >>

\* The json tags of SettingsDepotsOfflineSummary.
SummaryTags ==
    << [field |-> "Description", key |-> "description", omitempty |-> FALSE],
       [field |-> "SourceType", key |-> "source_type", omitempty |-> FALSE],
       [field |-> "FileId", key |-> "file_id", omitempty |-> TRUE],
       [field |-> "Location", key |-> "location", omitempty |-> TRUE],
       [field |-> "Owner", key |-> "owner", omitempty |-> TRUE],
       [field |-> "OwnerData", key |-> "owner_data", omitempty |-> TRUE] >>

\* json.Marshal of a struct of strings: one member per field, except that a
\* field tagged omitempty is left out when it holds the empty string.
MarshalStruct(tags, v) ==
    LET kept == {i \in 1..Len(tags) : ~(tags[i].omitempty /\ v[tags[i].field] = "")}
        keys == {tags[i].key : i \in kept}
    IN  [k \in keys |-> v[tags[CHOOSE i \in kept : tags[i].key = k].field]]

\* json.Unmarshal into a zero struct of strings: a field takes the member
\* with its key and stays empty when the document has none.
UnmarshalStruct(tags, doc) ==
    LET fields == {tags[i].field : i \in 1..Len(tags)}
        keyOf(f) == tags[CHOOSE i \in 1..Len(tags) : tags[i].field = f].key
    IN  [f \in fields |-> IF keyOf(f) \in DOMAIN doc THEN doc[keyOf(f)] ELSE ""]

\* Variant of the encoder in which description is not tagged omitempty.
EncodeCreateSpecKeepDescription(spec) ==
    MarshalStruct([CreateSpecTags EXCEPT ![1].omitempty = FALSE], spec)

\* The JSON document path.Request(http.MethodPost, spec) puts in the body.
EncodeCreateSpec(spec) == MarshalStruct(CreateSpecTags, spec)

DecodeCreateSpec(doc) == UnmarshalStruct(CreateSpecTags, doc)

DecodeSummary(doc) == UnmarshalStruct(SummaryTags, doc)

CreateOfflineDepotRequest(spec) ==
    Request(WithParam(Resource(DepotsOfflinePath), "vmw-task", <<"true">>), "POST",
            <<EncodeCreateSpec(spec)>>)

GetOfflineDepotContentRequest(depotId) ==
    Request(Resource(DepotsOfflineContentPath(depotId)), "GET", NoBody)

\* Variant of addArrayParam that only tests the pointer, not the length.
addArrayParamNoLenCheck(path, name, value) ==
    IF ~value.isNil
        THEN WithParam(path, name, Join(value.val, Comma))
        ELSE path

\* The closure addArrayParam: path is a pointer, so the parameter it adds
\* is seen by the caller.
addArrayParam(path, name, value) ==
    IF ~value.isNil /\ Len(value.val) > 0
        THEN WithParam(path, name, Join(value.val, Comma))
        ELSE path

GetDepotContentComponentsRequest(bundleTypes, names, vendors, versions, minVersion) ==
    LET p0 == Resource(DepotContentComponentsPath)
        p1 == addArrayParam(p0, "bundle_types", bundleTypes)
        p2 == addArrayParam(p1, "names", names)
        p3 == addArrayParam(p2, "vendors", vendors)
        p4 == addArrayParam(p3, "versions", versions)
        p5 == IF ~minVersion.isNil THEN WithParam(p4, "min_version", minVersion.val) ELSE p4
    IN  Request(p5, "GET", NoBody)

ListSoftwareDraftsRequest(clusterId, owners) ==
    LET p0 == Resource(SoftwareDraftsPath(clusterId))
        p1 == IF ~owners.isNil /\ Len(owners.val) > 0
                 THEN WithParam(p0, "owners", Join(owners.val, Comma))
                 ELSE p0
    IN  Request(p1, "GET", NoBody)

CreateSoftwareDraftRequest(clusterId) ==
    Request(Resource(SoftwareDraftsPath(clusterId)), "POST", NoBody)

DeleteSoftwareDraftRequest(clusterId, draftId) ==
    Request(WithSubpath(Resource(SoftwareDraftsPath(clusterId)), draftId), "DELETE", NoBody)

GetSoftwareDraftRequest(clusterId, draftId) ==
    Request(WithSubpath(Resource(SoftwareDraftsPath(clusterId)), draftId), "GET", NoBody)

\* Variant of the commit request that does not ask for a task.
CommitSoftwareDraftRequestNoTask(clusterId, draftId, spec) ==
    Request(WithParam(WithSubpath(Resource(SoftwareDraftsPath(clusterId)), draftId),
                      "action", <<"commit">>),
            "POST", <<spec>>)

CommitSoftwareDraftRequest(clusterId, draftId, spec) ==
    Request(WithParam(WithParam(WithSubpath(Resource(SoftwareDraftsPath(clusterId)), draftId),
                                "action", <<"commit">>),
                      "vmw-task", <<"true">>),
            "POST", <<spec>>)

UpdateSoftwareDraftComponentsRequest(clusterId, draftId, spec) ==
    Request(Resource(SoftwareComponentsPath(clusterId, draftId)), "PATCH", <<spec>>)

RemoveSoftwareDraftComponentsRequest(clusterId, draftId, component) ==
    Request(WithSubpath(Resource(SoftwareComponentsPath(clusterId, draftId)), component),
            "DELETE", NoBody)

ListSoftwareDraftComponentsRequest(clusterId, draftId) ==
    Request(Resource(SoftwareComponentsPath(clusterId, draftId)), "GET", NoBody)

GetSoftwareDraftComponentRequest(clusterId, draftId, component) ==
    Request(WithSubpath(Resource(SoftwareComponentsPath(clusterId, draftId)), component),
            "GET", NoBody)

(***************************************************************************)
(* Inputs of the accessors.                                                *)
(***************************************************************************)
MaxList == 2

DepotIds == {"depot-1", "missing"}

ClusterIds == {"domain-c21"}

DraftIds == {"13"}

ComponentIds == {"NVD-AIE-800"}

Elems == {<<"VMware">>, <<"Dell">>}

RECURSIVE ListsUpTo(_)
ListsUpTo(n) ==
    IF n = 0 THEN {<<>>}
    ELSE ListsUpTo(n - 1) \cup {Append(l, e) : l \in {m \in ListsUpTo(n - 1) : Len(m) = n - 1}, e \in Elems}

\* A []string filter argument: nil, empty, or up to MaxList elements.
FilterInputs == {NilPtr} \cup {Ptr(l) : l \in ListsUpTo(MaxList)}

ShortFilterInputs == {NilPtr, Ptr(<<>>), Ptr(<<<<"Dell">>>>), Ptr(<<<<>>, <<"Dell">>>>)}

MinVersionInputs == {NilPtr, Ptr(<<"8.0">>)}

CreateSpecs ==
    {[Description |-> d, SourceType |-> t, FileId |-> f, Location |-> l, OwnerData |-> o] :
        d \in {"", "patches"}, t \in {"", "PULL", "PUSH"}, f \in {"", "file-7"},
        l \in {"", "https://depot"}, o \in {"", "team"}}

DraftSpecs == {[message |-> "go"]}

\* Outcomes of c.Do for an accessor: a decoded result, or one error whatever
\* the failure class (transport, non-2xx status, decoding).
RestErrors == {"transport", "http404", "decode"}

RestOutcomes ==
    {[res |-> "decoded", err |-> Nil]} \cup {[res |-> Nil, err |-> e] : e \in RestErrors}

NoOutcome == [res |-> Nil, err |-> Nil]

NoAccessor == [name |-> "none", args |-> <<>>]

\* The accessor hands req to c.Do: one request per call.
Issue(name, args, req) ==
    /\ restPc' = "awaiting"
    /\ acc' = [name |-> name, args |-> args]
    /\ sent' = <<req>>
    /\ doOut' = NoOutcome
    /\ accRet' = NoOutcome

\* A direct call of an accessor on a manager with a working client.  The
\* managers keep no state between calls, so one call is followed from a
\* fresh manager.
Invoke(name, args, req) ==
    /\ cliPc = "none"
    /\ restPc = "idle"
    /\ Issue(name, args, req)
    /\ UNCHANGED <<pollVars, cliVars>>

GetOfflineDepot ==
    \E d \in DepotIds : Invoke("GetOfflineDepot", [depotId |-> d], GetOfflineDepotRequest(d))

GetOfflineDepots == Invoke("GetOfflineDepots", <<>>, GetOfflineDepotsRequest)

DeleteOfflineDepot ==
    \E d \in DepotIds : Invoke("DeleteOfflineDepot", [depotId |-> d], DeleteOfflineDepotRequest(d))

CreateOfflineDepot ==
    \E s \in CreateSpecs : Invoke("CreateOfflineDepot", [spec |-> s], CreateOfflineDepotRequest(s))

GetOfflineDepotContent ==
    \E d \in DepotIds :
        Invoke("GetOfflineDepotContent", [depotId |-> d], GetOfflineDepotContentRequest(d))

GetDepotContentComponents ==
    \E bt \in ShortFilterInputs, n \in FilterInputs, v \in FilterInputs,
       vs \in ShortFilterInputs, mv \in MinVersionInputs :
        Invoke("GetDepotContentComponents",
               [bundle_types |-> bt, names |-> n, vendors |-> v, versions |-> vs, min_version |-> mv],
               GetDepotContentComponentsRequest(bt, n, v, vs, mv))

ListSoftwareDrafts ==
    \E cl \in ClusterIds, o \in FilterInputs \cup ShortFilterInputs :
        Invoke("ListSoftwareDrafts", [clusterId |-> cl, owners |-> o],
               ListSoftwareDraftsRequest(cl, o))

CreateSoftwareDraft ==
    \E cl \in ClusterIds :
        Invoke("CreateSoftwareDraft", [clusterId |-> cl], CreateSoftwareDraftRequest(cl))

DeleteSoftwareDraft ==
    \E cl \in ClusterIds, d \in DraftIds :
        Invoke("DeleteSoftwareDraft", [clusterId |-> cl, draftId |-> d],
               DeleteSoftwareDraftRequest(cl, d))

GetSoftwareDraft ==
    \E cl \in ClusterIds, d \in DraftIds :
        Invoke("GetSoftwareDraft", [clusterId |-> cl, draftId |-> d],
               GetSoftwareDraftRequest(cl, d))

CommitSoftwareDraft ==
    \E cl \in ClusterIds, d \in DraftIds, s \in DraftSpecs :
        Invoke("CommitSoftwareDraft", [clusterId |-> cl, draftId |-> d, spec |-> s],
               CommitSoftwareDraftRequest(cl, d, s))

UpdateSoftwareDraftComponents ==
    \E cl \in ClusterIds, d \in DraftIds, s \in DraftSpecs :
        Invoke("UpdateSoftwareDraftComponents", [clusterId |-> cl, draftId |-> d, spec |-> s],
               UpdateSoftwareDraftComponentsRequest(cl, d, s))

RemoveSoftwareDraftComponents ==
    \E cl \in ClusterIds, d \in DraftIds, k \in ComponentIds :
        Invoke("RemoveSoftwareDraftComponents", [clusterId |-> cl, draftId |-> d, component |-> k],
               RemoveSoftwareDraftComponentsRequest(cl, d, k))

\* Variant of the accessor's return that wraps the error of c.Do.
AccessorReturnWrapped(o) ==
    [res |-> o.res, err |-> IF o.err = Nil THEN Nil ELSE "request failed"]

\* return res, c.Do(ctx, req, &res): the accessor returns what c.Do returned.
AccessorReturn(o) == [res |-> o.res, err |-> o.err]

\* c.Do returns and the accessor returns with it; nothing is retried.
DoReturn ==
    /\ restPc = "awaiting"
    /\ \E o \in RestOutcomes :
          /\ doOut' = o
          /\ accRet' = AccessorReturn(o)
    /\ restPc' = "returned"
    /\ UNCHANGED <<acc, sent, pollVars, cliVars>>

(***************************************************************************)
(* The govc commands.                                                      *)
(***************************************************************************)
MaxFlagLen == 4

FlagTokens == {"a", "b", ","}

RECURSIVE StringsUpTo(_)
StringsUpTo(n) ==
    IF n = 0 THEN {<<>>}
    ELSE StringsUpTo(n - 1) \cup {Append(w, t) : w \in {x \in StringsUpTo(n - 1) : Len(x) = n - 1}, t \in FlagTokens}

OwnersFlags == StringsUpTo(MaxFlagLen)

CommandNames ==
    {"cluster.draft.component.ls", "cluster.draft.ls", "cluster.draft.info",
     "vlcm.depot.offline.ls", "cluster.draft.component.info"}

\* A command after Register and flag parsing.
Commands ==
    {[name |-> n, clusterId |-> cl, draftId |-> d, componentId |-> k, owners |-> o] :
        n \in CommandNames \ {"cluster.draft.ls"}, cl \in ClusterIds, d \in DraftIds,
        k \in ComponentIds, o \in {<<>>}}
    \cup
    {[name |-> "cluster.draft.ls", clusterId |-> cl, draftId |-> d, componentId |-> k, owners |-> o] :
        cl \in ClusterIds, d \in DraftIds, k \in ComponentIds, o \in OwnersFlags}

NoCommand == [name |-> "none", clusterId |-> "", draftId |-> "", componentId |-> "", owners |-> <<>>]

\* cmd.RestClient(): a client, or nil and an error.
RestClientOutcomes == {[rc |-> "client", err |-> Nil], [rc |-> Nil, err |-> "login failed"]}

WriteErrors == {"write failed"}

NoManager == [built |-> FALSE, Client |-> Nil]

NewManager(client) == [built |-> TRUE, Client |-> client]

\* The owners argument cluster.draft.ls builds from its -owners flag.
OwnersArg(flag) == IF flag # <<>> THEN Ptr(Split(flag)) ELSE NilPtr

\* The accessor a command's Run calls, with the arguments it passes.
RunAccessor(c) ==
    CASE c.name = "cluster.draft.component.ls" ->
            [name |-> "ListSoftwareDraftComponents",
             args |-> [clusterId |-> c.clusterId, draftId |-> c.draftId],
             req |-> ListSoftwareDraftComponentsRequest(c.clusterId, c.draftId)]
      [] c.name = "cluster.draft.ls" ->
            [name |-> "ListSoftwareDrafts",
             args |-> [clusterId |-> c.clusterId, owners |-> OwnersArg(c.owners)],
             req |-> ListSoftwareDraftsRequest(c.clusterId, OwnersArg(c.owners))]
      [] c.name = "cluster.draft.info" ->
            [name |-> "GetSoftwareDraft",
             args |-> [clusterId |-> c.clusterId, draftId |-> c.draftId],
             req |-> GetSoftwareDraftRequest(c.clusterId, c.draftId)]
      [] c.name = "vlcm.depot.offline.ls" ->
            [name |-> "GetOfflineDepots", args |-> <<>>, req |-> GetOfflineDepotsRequest]
      [] c.name = "cluster.draft.component.info" ->
            [name |-> "GetSoftwareDraftComponent",
             args |-> [clusterId |-> c.clusterId, draftId |-> c.draftId, component |-> c.componentId],
             req |-> GetSoftwareDraftComponentRequest(c.clusterId, c.draftId, c.componentId)]

\* Run, first two statements: rc, err := cmd.RestClient() and
\* dm := NewManager(rc).  err is not tested before the manager is built.
RunBuildManager ==
    /\ cliPc = "none"
    /\ restPc = "idle"
    /\ \E c \in Commands, o \in RestClientOutcomes :
          /\ cmd' = c
          /\ rcErr' = o.err
          /\ dm' = NewManager(o.rc)
    /\ cliPc' = "built"
    /\ UNCHANGED <<runErr, restVars, pollVars>>

\* Run calls the accessor on dm.  The accessor dereferences the embedded
\* client to build the resource, which panics on a nil client.
RunCallAccessor ==
    /\ cliPc = "built"
    /\ IF dm.Client = Nil
          THEN /\ cliPc' = "panicked"
               /\ UNCHANGED restVars
          ELSE /\ cliPc' = "calling"
               /\ LET a == RunAccessor(cmd) IN Issue(a.name, a.args, a.req)
    /\ UNCHANGED <<cmd, dm, rcErr, runErr, pollVars>>

\* The accessor has returned: Run returns its error, or the result of
\* cmd.WriteResult.
RunFinish ==
    /\ cliPc = "calling"
    /\ restPc = "returned"
    /\ IF accRet.err # Nil
          THEN runErr' = accRet.err
          ELSE \E w \in {Nil} \cup WriteErrors : runErr' = w
    /\ cliPc' = "returned"
    /\ UNCHANGED <<cmd, dm, rcErr, restVars, pollVars>>

RestInit ==
    /\ restPc = "idle"
    /\ acc = NoAccessor
    /\ sent = <<>>
    /\ doOut = NoOutcome
    /\ accRet = NoOutcome

CliInit ==
    /\ cliPc = "none"
    /\ cmd = NoCommand
    /\ dm = NoManager
    /\ rcErr = Nil
    /\ runErr = Nil

RestNext ==
    \/ GetOfflineDepot
    \/ GetOfflineDepots
    \/ DeleteOfflineDepot
    \/ CreateOfflineDepot
    \/ GetOfflineDepotContent
    \/ GetDepotContentComponents
    \/ ListSoftwareDrafts
    \/ CreateSoftwareDraft
    \/ DeleteSoftwareDraft
    \/ GetSoftwareDraft
    \/ CommitSoftwareDraft
    \/ UpdateSoftwareDraftComponents
    \/ RemoveSoftwareDraftComponents
    \/ DoReturn
    \/ RunBuildManager
    \/ RunCallAccessor
    \/ RunFinish

Init ==
    /\ callers = {1}
    /\ PollInit
    /\ RestInit
    /\ CliInit

Next ==
    \E c \in Calls :
        \/ WaitForCompletion(c)
        \/ Tick(c)
        \/ Fetch(c)
        \/ Respond(c)

Spec == Init /\ [][Next]_vars

\* WaitForCompletion does not recover, so a panic raised in one call unwinds
\* its goroutine; unless a caller recovers it the Go runtime then ends the
\* program, and with it every other call still polling.
PanicExit ==
    /\ \E d \in Calls : pc[d] = "panicked"
    /\ \E c \in Calls : pc[c] \in {"select", "fetching"}
    /\ pc' = [c \in Calls |-> IF pc[c] \in {"select", "fetching"} THEN "crashed" ELSE pc[c]]
    /\ UNCHANGED <<callers, elapsed, chan, dropped, fetches, served, retStatus, retErr,
                   restVars, cliVars>>

\* Two calls of WaitForCompletion on different task ids in one program.
ConcInit ==
    /\ callers = Calls
    /\ PollInit
    /\ RestInit
    /\ CliInit

ConcNext ==
    \/ \E c \in Calls :
          \/ WaitForCompletion(c)
          \/ Tick(c)
          \/ Fetch(c)
          \/ Respond(c)
    \/ PanicExit

ConcSpec == ConcInit /\ [][ConcNext]_vars

RestSpec == Init /\ [][RestNext]_vars

\* Fairness the Go scheduler gives the poller: a runnable receive, an
\* outstanding request and a running ticker all make progress.
FairSpec ==
    /\ Spec
    /\ \A c \in Calls : WF_vars(Tick(c)) /\ WF_vars(Fetch(c)) /\ WF_vars(Respond(c))

(***************************************************************************)
(* Vocabulary of the poller properties.                                    *)
(***************************************************************************)
\* The outcome is a 2xx answer whose document carries a string status.
IsStatus(r) == r.err = Nil /\ MapIndex(r.doc, "status").type = "string"

StatusOf(r) == MapIndex(r.doc, "status").val

IsRunning(r) == IsStatus(r) /\ StatusOf(r) = "RUNNING"

AllRunning(s) == \A i \in 1..Len(s) : IsRunning(s[i])

AllStatuses(s) == \A i \in 1..Len(s) : IsStatus(s[i])

\* Position of the first served status that differs from "RUNNING" (0 if none).
FirstTerminal(s) ==
    LET T == {i \in 1..Len(s) : StatusOf(s[i]) # "RUNNING"}
    IN  IF T = {} THEN 0 ELSE CHOOSE i \in T : \A j \in T : i <= j

Last(s) == s[Len(s)]

\* C1: when the status endpoint serves a sequence of statuses, the call
\* returns (s, nil) with s the first status that differs from "RUNNING", the
\* number of fetches issued equals the position of that status, and no fetch
\* is issued afterwards (ticks that arrive after the return fetch nothing).
C1_FirstTerminalStatus ==
    \A c \in Calls :
        (AllStatuses(served[c]) /\ FirstTerminal(served[c]) > 0) =>
            /\ pc[c] = "returned"
            /\ retStatus[c] = StatusOf(served[c][FirstTerminal(served[c])])
            /\ retErr[c] = Nil
            /\ Len(fetches[c]) = FirstTerminal(served[c])
            /\ Len(served[c]) = FirstTerminal(served[c])

\* RUNNING, RUNNING, SUCCEEDED was served, the call returned after three
\* fetches and at least one more interval has elapsed since.
C1_Witness ==
    \E c \in Calls :
        /\ Len(served[c]) = 3
        /\ IsRunning(served[c][1]) /\ IsRunning(served[c][2])
        /\ IsStatus(served[c][3]) /\ StatusOf(served[c][3]) = "SUCCEEDED"
        /\ pc[c] = "returned" /\ retStatus[c] = "SUCCEEDED"
        /\ Len(fetches[c]) = 3
        /\ elapsed[c] > 3 + dropped[c]

\* C2: when the fetch of poll attempt N fails after N-1 polls that returned
\* "RUNNING", the call returns that error after exactly N fetches.
C2_FetchErrorReturned ==
    \A c \in Calls :
        (/\ Len(served[c]) > 0
         /\ Last(served[c]).err # Nil
         /\ AllRunning(SubSeq(served[c], 1, Len(served[c]) - 1))) =>
            /\ pc[c] = "returned"
            /\ retErr[c] = Last(served[c]).err
            /\ Len(fetches[c]) = Len(served[c])

\* C3: when a fetch succeeds but the document has no string "status" field,
\* the call returns an error and does not terminate abnormally.
C3_MalformedStatusFails ==
    \A c \in Calls :
        (/\ Len(served[c]) > 0
         /\ Last(served[c]).err = Nil
         /\ ~IsStatus(Last(served[c]))) =>
            /\ pc[c] = "returned"
            /\ retErr[c] # Nil

\* C4 as stated: while every fetch returns "RUNNING", the call never returns
\* and every elapsed interval has produced a fetch (or its tick is the one
\* the call is about to receive), also when a fetch outlasts an interval.
C4_OneFetchPerInterval ==
    \A c \in Calls :
        (pc[c] # "idle" /\ AllRunning(served[c])) =>
            /\ pc[c] \in {"select", "fetching"}
            /\ Len(fetches[c]) + chan[c] = elapsed[c]

\* C4 amended: while every fetch returns "RUNNING", the call never returns
\* and issues at most one fetch per elapsed interval; the intervals that
\* produce no fetch are exactly those whose tick was dropped because a tick
\* was already buffered while a fetch was outstanding.
C4_OneFetchPerDeliveredTick ==
    \A c \in Calls :
        (pc[c] # "idle" /\ AllRunning(served[c])) =>
            /\ pc[c] \in {"select", "fetching"}
            /\ Len(fetches[c]) + chan[c] + dropped[c] = elapsed[c]
            /\ chan[c] \in {0, 1}
            /\ (dropped[c] = 0 => Len(fetches[c]) + chan[c] = elapsed[c])
            /\ (dropped[c] > 0 => Len(fetches[c]) > 0)

\* A fetch outlasted two intervals, a tick was dropped, and polling went on
\* with fewer fetches than intervals.
C4_Witness ==
    \E c \in Calls :
        /\ AllRunning(served[c])
        /\ Len(served[c]) >= 2
        /\ dropped[c] > 0
        /\ Len(fetches[c]) < elapsed[c]
        /\ pc[c] = "select"

\* C5: no status fetch is issued on entry; at every point the number of
\* fetches issued is at most the number of intervals elapsed since the call
\* started.
C5_NoFetchBeforeFirstInterval ==
    \A c \in Calls :
        /\ Len(fetches[c]) <= elapsed[c]
        /\ (elapsed[c] = 0 => fetches[c] = <<>>)
        /\ (pc[c] = "fetching" => elapsed[c] >= 1)

\* The call has started, the first interval has elapsed and the first fetch
\* is outstanding.
C5_Witness ==
    \E c \in Calls :
        /\ pc[c] = "fetching"
        /\ elapsed[c] = 1
        /\ Len(fetches[c]) = 1

\* C6: once the endpoint has answered a fetch with a status other than
\* "RUNNING" or with an error, the call eventually returns; while neither
\* has happened it does not return.
C6_EventuallyReturns ==
    \A c \in Calls :
        /\ [](AllRunning(served[c]) => pc[c] # "returned")
        /\ ((/\ Len(served[c]) > 0
             /\ \/ Last(served[c]).err # Nil
                \/ (IsStatus(Last(served[c])) /\ ~IsRunning(Last(served[c]))))
            ~> (pc[c] = "returned"))

\* C7: every status string other than "RUNNING" is returned unchanged with a
\* nil error, whatever its value and whatever else the document carries.
C7_StatusPassedThrough ==
    \A c \in Calls :
        (/\ Len(served[c]) > 0
         /\ IsStatus(Last(served[c]))
         /\ ~IsRunning(Last(served[c]))) =>
            /\ pc[c] = "returned"
            /\ retStatus[c] = StatusOf(Last(served[c]))
            /\ retErr[c] = Nil

\* A task answered "FAILED" after a "RUNNING" and the call returned
\* ("FAILED", nil).
C7_Witness ==
    \E c \in Calls :
        /\ Len(served[c]) = 2
        /\ IsStatus(Last(served[c]))
        /\ StatusOf(Last(served[c])) = "FAILED"
        /\ pc[c] = "returned"
        /\ retStatus[c] = "FAILED"
        /\ retErr[c] = Nil

(***************************************************************************)
(* Vocabulary of the accessor properties.                                  *)
(***************************************************************************)
ParamsNamed(req, n) == SelectSeq(req.params, LAMBDA q : q[1] = n)

\* Where element i starts in the comma-joined value of elems (0-based).
RECURSIVE Offset(_, _)
Offset(elems, i) == IF i = 1 THEN 0 ELSE Offset(elems, i - 1) + Len(elems[i - 1]) + 1

\* v consists of the elements of elems in order, one comma between neighbours.
IsCommaJoined(v, elems) ==
    /\ Len(elems) > 0
    /\ Len(v) = Offset(elems, Len(elems)) + Len(elems[Len(elems)])
    /\ \A i \in 1..Len(elems) :
          /\ SubSeq(v, Offset(elems, i) + 1, Offset(elems, i) + Len(elems[i])) = elems[i]
          /\ (i < Len(elems) => v[Offset(elems, i) + Len(elems[i]) + 1] = ",")

FilterParamOk(req, name, input) ==
    IF input.isNil \/ Len(input.val) = 0
        THEN ParamsNamed(req, name) = <<>>
        ELSE /\ Len(ParamsNamed(req, name)) = 1
             /\ IsCommaJoined(ParamsNamed(req, name)[1][2], input.val)

VendorsOnly ==
    [bundle_types |-> NilPtr, names |-> NilPtr,
     vendors |-> Ptr(<<(<<"VMware">>), (<<"Dell">>)>>),
     versions |-> NilPtr, min_version |-> NilPtr]

\* C8: in GetDepotContentComponents and ListSoftwareDrafts a multi-value
\* filter that is nil or empty adds no query parameter, and a non-empty one
\* adds exactly one parameter whose value is its elements joined by single
\* commas in input order; vendors = ["VMware","Dell"] alone yields the only
\* parameter vendors=VMware,Dell.
C8_MultiValueFilters ==
    /\ (restPc # "idle" /\ acc.name = "GetDepotContentComponents") =>
          /\ Len(sent) = 1
          /\ FilterParamOk(sent[1], "bundle_types", acc.args.bundle_types)
          /\ FilterParamOk(sent[1], "names", acc.args.names)
          /\ FilterParamOk(sent[1], "vendors", acc.args.vendors)
          /\ FilterParamOk(sent[1], "versions", acc.args.versions)
          /\ (acc.args = VendorsOnly =>
                sent[1].params = << <<"vendors", <<"VMware", ",", "Dell">> >> >>)
    /\ (restPc # "idle" /\ acc.name = "ListSoftwareDrafts") =>
          /\ Len(sent) = 1
          /\ FilterParamOk(sent[1], "owners", acc.args.owners)
          /\ Len(sent[1].params) = Len(ParamsNamed(sent[1], "owners"))

\* GetDepotContentComponents was called with vendors = ["VMware","Dell"]
\* only and the request carries the single parameter.
C8_Witness ==
    /\ restPc = "returned"
    /\ acc.name = "GetDepotContentComponents"
    /\ acc.args = VendorsOnly
    /\ Len(sent[1].params) = 1

\* C9: every failure in a command's Run is returned as a non-nil error; when
\* cmd.RestClient() fails, Run returns that error without building a
\* manager or issuing a request.
C9_RestClientErrorReturned ==
    /\ (cliPc = "returned" /\ accRet.err # Nil) => runErr # Nil
    /\ rcErr # Nil =>
          /\ ~dm.built
          /\ sent = <<>>
          /\ cliPc = "returned"
          /\ runErr = rcErr

\* C10: every accessor hands exactly one request to the REST client per
\* call, whatever the outcome, and returns the client's error unchanged.
C10_OneRequestErrorUnchanged ==
    /\ (restPc = "idle" <=> sent = <<>>)
    /\ (restPc # "idle" => Len(sent) = 1)
    /\ (restPc = "returned" =>
          /\ accRet.err = doOut.err
          /\ (accRet.err = Nil \/ accRet.err \in RestErrors))

\* DeleteOfflineDepot on a depot that does not exist: the 404 of the single
\* DELETE request came back as the accessor's error.
C10_Witness ==
    /\ restPc = "returned"
    /\ acc.name = "DeleteOfflineDepot"
    /\ acc.args.depotId = "missing"
    /\ doOut.err = "http404"
    /\ accRet.err = "http404"
    /\ Len(sent) = 1
    /\ sent[1].method = "DELETE"

(***************************************************************************)
(* Two calls side by side.                                                 *)
(***************************************************************************)
\* What a call ends with when it runs alone and its fetches are answered
\* with the outcomes s, the last of which ended it.
AloneResult(s) ==
    IF IsStatus(Last(s))
        THEN [next |-> "returned", status |-> StatusOf(Last(s)), err |-> Nil]
        ELSE [next |-> "panicked", status |-> Nil, err |-> Nil]

\* The call is still polling after the outcomes s.
StillPolling(s) == AllRunning(s)

\* C11: two calls on different task ids do not interact: each call's fetches
\* name only its own task id, each call ends as it would running alone on
\* its own task's answers, and a call has at most one fetch outstanding.
C11_CallsIndependent ==
    \A c \in callers :
        /\ \A i \in 1..Len(fetches[c]) :
              fetches[c][i] = [method |-> "GET", path |-> Append(TasksPath, TaskIdOf(c)),
                               params |-> <<>>, body |-> NoBody]
        /\ Len(fetches[c]) - Len(served[c]) \in {0, 1}
        /\ (Len(fetches[c]) > Len(served[c]) <=> pc[c] = "fetching")
        /\ IF StillPolling(served[c])
              THEN pc[c] \in {"idle", "select", "fetching"}
              ELSE [next |-> pc[c], status |-> retStatus[c], err |-> retErr[c]]
                       = AloneResult(served[c])

(***************************************************************************)
(* Asynchronous operations and the creation spec.                          *)
(***************************************************************************)
ParamSet(req) == {req.params[i] : i \in 1..Len(req.params)}

\* C12: the asynchronous operations always ask for a task: CreateOfflineDepot
\* POSTs to /api/esx/settings/depots/offline with vmw-task=true,
\* DeleteOfflineDepot DELETEs /api/esx/settings/depots/offline/{depotId}
\* with vmw-task=true, and CommitSoftwareDraft POSTs to the draft's path
\* with action=commit and vmw-task=true.
C12_AsyncAskForTask ==
    /\ (restPc # "idle" /\ acc.name = "CreateOfflineDepot") =>
          /\ sent[1].method = "POST"
          /\ sent[1].path = <<"api", "esx", "settings", "depots", "offline">>
          /\ sent[1].params = << <<"vmw-task", <<"true">> >> >>
    /\ (restPc # "idle" /\ acc.name = "DeleteOfflineDepot") =>
          /\ sent[1].method = "DELETE"
          /\ sent[1].path = <<"api", "esx", "settings", "depots", "offline", acc.args.depotId>>
          /\ sent[1].params = << <<"vmw-task", <<"true">> >> >>
    /\ (restPc # "idle" /\ acc.name = "CommitSoftwareDraft") =>
          /\ sent[1].method = "POST"
          /\ sent[1].path = <<"api", "esx", "settings", "clusters", acc.args.clusterId,
                              "software", "drafts", acc.args.draftId>>
          /\ Len(sent[1].params) = 2
          /\ ParamSet(sent[1]) = {<<"action", <<"commit">> >>, <<"vmw-task", <<"true">> >>}

\* A draft was committed: one POST carrying both parameters went out.
C12_Witness ==
    /\ restPc = "returned"
    /\ acc.name = "CommitSoftwareDraft"
    /\ sent[1].method = "POST"
    /\ Len(sent[1].params) = 2

\* The fields of a creation spec with their JSON member names.
SpecMembers ==
    {<<"Description", "description">>, <<"SourceType", "source_type">>,
     <<"FileId", "file_id">>, <<"Location", "location">>, <<"OwnerData", "owner_data">>}

\* Decoding the document gives back every field of the spec.
RoundTrips(spec, doc) ==
    /\ \A m \in SpecMembers : DecodeCreateSpec(doc)[m[1]] = spec[m[1]]
    /\ \A m \in SpecMembers : DecodeSummary(doc)[m[1]] = spec[m[1]]
    /\ \A m \in SpecMembers : spec[m[1]] # "" => (m[2] \in DOMAIN doc /\ doc[m[2]] = spec[m[1]])

\* C13 as stated: the encoded creation spec decodes back to equal fields and
\* every empty field of the spec is absent from the document.
C13_EveryEmptyFieldAbsent ==
    (restPc # "idle" /\ acc.name = "CreateOfflineDepot") =>
        LET spec == acc.args.spec
            doc == sent[1].body[1]
        IN  /\ RoundTrips(spec, doc)
            /\ \A m \in SpecMembers : spec[m[1]] = "" => m[2] \notin DOMAIN doc

\* C13 amended: the encoded creation spec decodes back to equal fields; an
\* empty description, file_id, location or owner_data is absent from the
\* document, while source_type is always present, as the empty string when
\* the field is empty.
C13_OmitEmptyExceptSourceType ==
    (restPc # "idle" /\ acc.name = "CreateOfflineDepot") =>
        LET spec == acc.args.spec
            doc == sent[1].body[1]
        IN  /\ RoundTrips(spec, doc)
            /\ \A m \in SpecMembers \ {<<"SourceType", "source_type">>} :
                  spec[m[1]] = "" => m[2] \notin DOMAIN doc
            /\ "source_type" \in DOMAIN doc
            /\ doc["source_type"] = spec.SourceType
            /\ DOMAIN doc \subseteq {m[2] : m \in SpecMembers}

\* A spec with an empty description and an empty source type was sent: the
\* document has no description member and an empty source_type member.
C13_Witness ==
    /\ restPc = "returned"
    /\ acc.name = "CreateOfflineDepot"
    /\ acc.args.spec.Description = ""
    /\ acc.args.spec.SourceType = ""
    /\ acc.args.spec.Location # ""
    /\ "description" \notin DOMAIN sent[1].body[1]
    /\ sent[1].body[1]["source_type"] = ""
    /\ "location" \in DOMAIN sent[1].body[1]

(***************************************************************************)
(* Return of the poller and the -owners flag.                              *)
(***************************************************************************)
\* C14: once WaitForCompletion has returned, the ticker it started is
\* stopped: no further interval is counted and no tick reaches ticker.C.
C14_TickerStoppedOnReturn ==
    [][\A c \in Calls :
          pc[c] = "returned" => (elapsed'[c] = elapsed[c] /\ chan'[c] = chan[c])]_vars

\* C15: a return with a nil error carries a status that is not "RUNNING" and
\* is the status read by the most recent fetch; "RUNNING" is returned only
\* together with a non-nil error.
C15_NilErrorMeansTerminal ==
    \A c \in Calls :
        pc[c] = "returned" =>
            /\ Len(served[c]) = Len(fetches[c])
            /\ Len(served[c]) > 0
            /\ (retErr[c] = Nil =>
                  /\ retStatus[c] # "RUNNING"
                  /\ MapIndex(Last(served[c]).doc, "status") = JString(retStatus[c]))
            /\ (retStatus[c] = "RUNNING" => retErr[c] # Nil)

\* The second fetch read "BLOCKED" after a "RUNNING" and the call returned
\* it with a nil error.
C15_Witness ==
    \E c \in Calls :
        /\ pc[c] = "returned"
        /\ retErr[c] = Nil
        /\ retStatus[c] = "BLOCKED"
        /\ Len(served[c]) = 2
        /\ MapIndex(served[c][1].doc, "status") = JString("RUNNING")

\* C16: cluster.draft.ls passes a nil owners list for an empty -owners flag,
\* so the request has no owners parameter; a non-empty flag s is split on
\* commas and joined again, and the owners parameter sent equals s.
C16_OwnersFlagRoundTrip ==
    (cliPc \in {"calling", "returned"} /\ cmd.name = "cluster.draft.ls") =>
        /\ acc.name = "ListSoftwareDrafts"
        /\ Len(sent) = 1
        /\ IF cmd.owners = <<>>
              THEN /\ acc.args.owners.isNil
                   /\ sent[1].params = <<>>
              ELSE /\ ~acc.args.owners.isNil
                   /\ sent[1].params = << <<"owners", cmd.owners>> >>

\* cluster.draft.ls -owners=a,,b ran: the middle piece is empty and the
\* parameter sent is a,,b.
C16_Witness ==
    /\ cliPc = "returned"
    /\ cmd.name = "cluster.draft.ls"
    /\ cmd.owners = <<"a", ",", ",", "b">>
    /\ Len(acc.args.owners.val) = 3
    /\ acc.args.owners.val[2] = <<>>
    /\ sent[1].params[1][2] = <<"a", ",", ",", "b">>

====
